---- MODULE Spec2Model ----
(***************************************************************************)
(* A model of the key-value store CLI of src/src/main.rs.                  *)
(*                                                                         *)
(* One invocation of the program is one command (init, add, remove, list)  *)
(* against one resource: create_serializer picks the adapter from the      *)
(* resource name, the command reads the whole dataset, changes it in       *)
(* memory and writes the whole dataset back.                               *)
(*                                                                         *)
(* A resource's content is abstracted to what the adapters can tell apart: *)
(*   kind "missing"  no file of that name                                  *)
(*   kind "empty"    a file of zero bytes                                  *)
(*   kind "garbage"  bytes the adapter's format cannot decode              *)
(*   kind "data"     a sequence of rows in file order (for CSV the records *)
(*                   after the header record, for SQLite the rows of table *)
(*                   kvstore, for YAML/JSON the entries of the top-level   *)
(*                   mapping).  A row is <<key, value>>; a row of one      *)
(*                   field stands for an entry the adapter cannot turn     *)
(*                   into a pair of strings (a CSV record with a field     *)
(*                   count other than 2, a NULL or non-text column, a      *)
(*                   non-string YAML/JSON value).                          *)
(* A Database (HashMap<String, String>) is a function from a finite set of *)
(* keys to values.  A HashMap iterates in no fixed order, so a write lays  *)
(* the entries out in any order.                                           *)
(***************************************************************************)
EXTENDS Naturals, Sequences, FiniteSets

VARIABLES
    fname,   \* the resource name given on the command line (a sequence of characters)
    file,    \* the content of the resource
    last,    \* what the latest sequential command did (its inputs, its result)
    trace,   \* the results of the steps of the end-to-end scenario so far
    procs,   \* the concurrent invocations: each process's position and memory
    commits, \* the processes in the order their writes completed
    rt,      \* the adapter round trip: the mapping first read, the latest read, the trips made
    sel      \* the latest selection made by create_serializer

vars == <<fname, file, last, trace, procs, commits, rt, sel>>

----------------------------------------------------------------------------
(* Bounds of the model *)

MaxRows == 2
MaxNameLen == 8
MaxSegs == 3
MaxTrips == 2

\* The keys and values commands and resources are drawn from: the two seed
\* entries of init_db and one more key.
Keys == {"hat", "food", "color"}
Vals == {"fedora", "hotdog"}

----------------------------------------------------------------------------
(* Resource names and the backend selector *)

DotYml == <<".", "y", "m", "l">>
DotJson == <<".", "j", "s", "o", "n">>
DotDb == <<".", "d", "b">>
DotSqlite == <<".", "s", "q", "l", "i", "t", "e">>
DotCsv == <<".", "c", "s", "v">>
DotTxt == <<".", "t", "x", "t">>
Stem == <<"d", "b">>

\* The resources the commands run against: one name per adapter and one
\* that matches no suffix.
DbNames ==
    { Stem \o DotYml, Stem \o DotJson, Stem \o DotDb, Stem \o DotCsv, Stem \o DotTxt }

\* The pieces resource names are put together from when the selector is
\* exercised: the five suffixes, and near misses of them.
Segments ==
    { DotYml, DotJson, DotDb, DotSqlite, DotCsv, DotTxt,
      <<"x">>, <<".">>, <<"y", "m", "l">>, <<"d", "b">>, <<"l">>, <<".", "y", "m">> }

\* str::ends_with
EndsWith(s, suffix) ==
    /\ Len(s) >= Len(suffix)
    /\ SubSeq(s, Len(s) - Len(suffix) + 1, Len(s)) = suffix

\* A selector that tests the suffixes in another order and treats a bare
\* "db" ending as SQLite.
create_serializer_loose(name) ==
    IF EndsWith(name, <<"d", "b">>) \/ EndsWith(name, DotSqlite)
    THEN [kind |-> "Sqlite", notice |-> FALSE]
    ELSE IF EndsWith(name, DotYml) THEN [kind |-> "Yaml", notice |-> FALSE]
    ELSE IF EndsWith(name, DotJson) THEN [kind |-> "Json", notice |-> FALSE]
    ELSE IF EndsWith(name, DotCsv) THEN [kind |-> "Csv", notice |-> FALSE]
    ELSE [kind |-> "Yaml", notice |-> TRUE]

\* create_serializer: the adapter for a resource name, and whether the
\* fallback notice is printed.
create_serializer(name) ==
    IF EndsWith(name, DotYml) THEN [kind |-> "Yaml", notice |-> FALSE]
    ELSE IF EndsWith(name, DotJson) THEN [kind |-> "Json", notice |-> FALSE]
    ELSE IF EndsWith(name, DotDb) \/ EndsWith(name, DotSqlite)
         THEN [kind |-> "Sqlite", notice |-> FALSE]
    ELSE IF EndsWith(name, DotCsv) THEN [kind |-> "Csv", notice |-> FALSE]
    ELSE [kind |-> "Yaml", notice |-> TRUE]

----------------------------------------------------------------------------
(* Errors (enum Error) *)

NoErr == [kind |-> "None", key |-> ""]
Err(kind) == [kind |-> kind, key |-> ""]
KeyAlreadyExists == [kind |-> "KeyAlreadyExists", key |-> ""]
KeyDoesNotExist(key) == [kind |-> "KeyDoesNotExist", key |-> key]

----------------------------------------------------------------------------
(* Databases (type Database = HashMap<String, String>) *)

EmptyDb == [k \in {} |-> ""]

\* HashMap::insert: the map with key bound to value, and whether a value
\* was there before (insert returns it).
DbInsert(db, key, value) ==
    [db |-> [k \in DOMAIN db \cup {key} |-> IF k = key THEN value ELSE db[k]],
     had |-> key \in DOMAIN db]

\* HashMap::remove: the map without key, and whether a value was there.
DbRemove(db, key) ==
    [db |-> [k \in DOMAIN db \ {key} |-> db[k]],
     had |-> key \in DOMAIN db]

Databases == UNION { [S -> Vals] : S \in SUBSET Keys }

----------------------------------------------------------------------------
(* Resource contents *)

Missing == [kind |-> "missing", rows |-> <<>>]
Empty == [kind |-> "empty", rows |-> <<>>]
Garbage == [kind |-> "garbage", rows |-> <<>>]
Data(rows) == [kind |-> "data", rows |-> rows]

GoodRows == { <<k, v>> : k \in Keys, v \in Vals }
BadRows == { <<"hat">> }
Rows == GoodRows \cup BadRows

SeqsUpTo(S, n) == UNION { [1..m -> S] : m \in 0..n }

\* Every content a resource may hold before the program first touches it.
Contents ==
    {Missing, Empty, Garbage} \cup { Data(rows) : rows \in SeqsUpTo(Rows, MaxRows) }

IsBad(row) == Len(row) # 2

\* The entries of a database laid out in every order a HashMap may
\* iterate them in.
Layouts(db) ==
    LET n == Cardinality(DOMAIN db)
        orders == { o \in [1..n -> DOMAIN db] : \A i, j \in 1..n : o[i] = o[j] => i = j }
    IN  { [i \in 1..n |-> <<o[i], db[o[i]]>>] : o \in orders }

\* The proper prefixes of a layout: what is on disk when a write stops
\* at a row boundary.
ProperPrefixes(rows) == { SubSeq(rows, 1, m) : m \in 0..(Len(rows) - 1) }

----------------------------------------------------------------------------
(* Failures of the environment.  A command runs with one of:               *)
(*   "none"    every system call succeeds                                  *)
(*   "read"    opening or reading the resource fails                       *)
(*   "create"  opening the resource for writing fails                      *)
(*   "midway"  the write fails after the resource was opened for writing   *)
(*   "drop"    (CSV) the buffered writer's flush on drop fails             *)
(* A failure that has no place in the adapter at hand changes nothing.     *)

ReadFaults == {"read"}
WriteFaults(kind) == IF kind = "Csv" THEN {"create", "midway", "drop"} ELSE {"create", "midway"}

----------------------------------------------------------------------------
(* Decoding a sequence of rows *)

RECURSIVE DeserializeMap(_, _, _, _)
\* serde's deserialization of a mapping into a HashMap: every entry is a
\* pair of strings or the whole decode fails; an entry whose key came
\* before replaces the earlier one.
DeserializeMap(rows, i, db, decodeKind) ==
    IF i > Len(rows) THEN [err |-> NoErr, db |-> db]
    ELSE IF IsBad(rows[i]) THEN [err |-> Err(decodeKind), db |-> EmptyDb]
    ELSE DeserializeMap(rows, i + 1, DbInsert(db, rows[i][1], rows[i][2]).db, decodeKind)

\* A row loop that lets a repeated key overwrite the earlier row.
InsertRowsOverwriting(rows, i, db, decodeKind) == DeserializeMap(rows, i, db, decodeKind)

RECURSIVE InsertRows(_, _, _, _)
\* The row loop of the SQLite and CSV readers: rows are taken in file
\* order, a row that does not decode ends the read with the adapter's
\* error, a key seen before ends it with KeyAlreadyExists.
InsertRows(rows, i, db, decodeKind) ==
    IF i > Len(rows) THEN [err |-> NoErr, db |-> db]
    ELSE IF IsBad(rows[i]) THEN [err |-> Err(decodeKind), db |-> EmptyDb]
    ELSE LET res == DbInsert(db, rows[i][1], rows[i][2])
         IN  IF res.had THEN [err |-> KeyAlreadyExists, db |-> EmptyDb]
             ELSE InsertRows(rows, i + 1, res.db, decodeKind)

ReadFailed(err, f) == [err |-> err, db |-> EmptyDb, file |-> f]
ReadDone(res, f) == [err |-> res.err, db |-> res.db, file |-> f]

----------------------------------------------------------------------------
(* The adapters (trait Serializer).  read_from_file gives the set of       *)
(* results [err, db, file] the read may have, file being the resource      *)
(* after the read; write_to_file gives the set of results [err, file].     *)

\* std::fs::write: create or truncate the file, then write the bytes.  A
\* failure after the truncation leaves no bytes, a cut inside an entry, or
\* (where the format allows) whole entries short of the full text.
FsWrite(f, db, fault, cutAtEntry) ==
    IF fault = "create" THEN { [err |-> Err("IO"), file |-> f] }
    ELSE IF fault = "midway"
    THEN { [err |-> Err("IO"), file |-> c] :
             c \in {Empty, Garbage} \cup
                   (IF cutAtEntry
                    THEN { Data(p) : p \in UNION { ProperPrefixes(l) \ {<<>>} : l \in Layouts(db) } }
                    ELSE {}) }
    ELSE { [err |-> NoErr, file |-> Data(l)] : l \in Layouts(db) }

YamlSerializer_write_to_file(f, db, fault) == FsWrite(f, db, fault, TRUE)

YamlSerializer_read_from_file(f, fault) ==
    IF fault = "read" \/ f.kind = "missing" THEN { ReadFailed(Err("IO"), f) }
    ELSE IF f.kind = "garbage" THEN { ReadFailed(Err("SerdeYaml"), f) }
    ELSE IF f.kind = "empty"
    \* an empty document is an end-of-stream error or an empty mapping,
    \* by the release of serde_yaml the program is built with
    THEN { ReadFailed(Err("SerdeYaml"), f), ReadDone([err |-> NoErr, db |-> EmptyDb], f) }
    ELSE { ReadDone(DeserializeMap(f.rows, 1, EmptyDb, "SerdeYaml"), f) }

JsonSerializer_write_to_file(f, db, fault) == FsWrite(f, db, fault, FALSE)

JsonSerializer_read_from_file(f, fault) ==
    IF fault = "read" \/ f.kind = "missing" THEN { ReadFailed(Err("IO"), f) }
    ELSE IF f.kind \in {"garbage", "empty"} THEN { ReadFailed(Err("SerdeJson"), f) }
    ELSE { ReadDone(DeserializeMap(f.rows, 1, EmptyDb, "SerdeJson"), f) }

\* Connection::open: creates the database file when there is none (a file
\* of zero bytes is a database with no table).
ConnectionOpen(f) == IF f.kind = "missing" THEN Empty ELSE f

\* A SQLite write that commits although a statement failed after the
\* table was dropped.
SqliteSerializer_write_to_file_autocommit(f, db, fault) ==
    IF fault = "create" THEN { [err |-> Err("Sql"), file |-> f] }
    ELSE IF ConnectionOpen(f).kind = "garbage"
    THEN { [err |-> Err("Sql"), file |-> ConnectionOpen(f)] }
    ELSE IF fault = "midway"
    THEN { [err |-> Err("Sql"), file |-> Data(p)] :
             p \in UNION { ProperPrefixes(l) : l \in Layouts(db) } }
    ELSE { [err |-> NoErr, file |-> Data(l)] : l \in Layouts(db) }

\* Drop the table, create it, insert every entry, all in one transaction;
\* any statement that fails ends the write before the commit and the
\* transaction is rolled back.  The first statement fails on a file that
\* is not a database.
SqliteSerializer_write_to_file(f, db, fault) ==
    IF fault = "create" THEN { [err |-> Err("Sql"), file |-> f] }
    ELSE IF ConnectionOpen(f).kind = "garbage"
    THEN { [err |-> Err("Sql"), file |-> ConnectionOpen(f)] }
    ELSE IF fault = "midway" THEN { [err |-> Err("Sql"), file |-> ConnectionOpen(f)] }
    ELSE { [err |-> NoErr, file |-> Data(l)] : l \in Layouts(db) }

\* SELECT key, value FROM kvstore, then the row loop.  The statement does
\* not prepare when the file is not a database or has no table kvstore.
SqliteSerializer_read_from_file(f, fault) ==
    IF fault = "read" THEN { ReadFailed(Err("Sql"), f) }
    ELSE IF ConnectionOpen(f).kind # "data" THEN { ReadFailed(Err("Sql"), ConnectionOpen(f)) }
    ELSE { ReadDone(InsertRows(f.rows, 1, EmptyDb, "Sql"), f) }

\* File::create, the header record, one record per entry; the records go
\* to the writer's buffer and reach the file when the buffer fills or when
\* the writer is dropped, and the flush on drop reports no error.  A write
\* cut short leaves no bytes, the header and some whole records, or these
\* and the first field of the next record.
CsvSerializer_write_to_file(f, db, fault) ==
    LET cut == UNION { { Data(p) : p \in ProperPrefixes(l) } \cup
                       { Data(Append(p, <<l[Len(p) + 1][1]>>)) : p \in ProperPrefixes(l) }
                       : l \in Layouts(db) }
    IN  IF fault = "create" THEN { [err |-> Err("IO"), file |-> f] }
        ELSE IF fault = "midway"
        THEN { [err |-> Err("Csv"), file |-> c] : c \in {Empty} \cup cut }
        ELSE IF fault = "drop"
        THEN { [err |-> NoErr, file |-> c] : c \in {Empty} \cup cut }
        ELSE { [err |-> NoErr, file |-> Data(l)] : l \in Layouts(db) }

\* File::open, then the row loop over the records after the first one
\* (the reader takes the first record as the header).
CsvSerializer_read_from_file(f, fault) ==
    IF fault = "read" \/ f.kind = "missing" THEN { ReadFailed(Err("IO"), f) }
    ELSE IF f.kind = "garbage" THEN { ReadFailed(Err("Csv"), f) }
    ELSE IF f.kind = "empty" THEN { ReadDone([err |-> NoErr, db |-> EmptyDb], f) }
    ELSE { ReadDone(InsertRows(f.rows, 1, EmptyDb, "Csv"), f) }

\* A write that lays out all entries but the first.
write_to_file_short(kind, f, db, fault) ==
    { [err |-> NoErr, file |-> Data(Tail(l))] : l \in Layouts(db) \ {<<>>} }
    \cup { [err |-> NoErr, file |-> Data(l)] : l \in Layouts(db) \cap {<<>>} }

\* A write that keeps the entries already in the resource.
write_to_file_merging(kind, f, db, fault) ==
    { [err |-> NoErr, file |-> Data(f.rows \o l)] : l \in Layouts(db) }

\* serializer.write_to_file: the dynamic dispatch over the four adapters.
write_to_file(kind, f, db, fault) ==
    CASE kind = "Yaml" -> YamlSerializer_write_to_file(f, db, fault)
      [] kind = "Json" -> JsonSerializer_write_to_file(f, db, fault)
      [] kind = "Sqlite" -> SqliteSerializer_write_to_file(f, db, fault)
      [] kind = "Csv" -> CsvSerializer_write_to_file(f, db, fault)

\* serializer.read_from_file
read_from_file(kind, f, fault) ==
    CASE kind = "Yaml" -> YamlSerializer_read_from_file(f, fault)
      [] kind = "Json" -> JsonSerializer_read_from_file(f, fault)
      [] kind = "Sqlite" -> SqliteSerializer_read_from_file(f, fault)
      [] kind = "Csv" -> CsvSerializer_read_from_file(f, fault)

----------------------------------------------------------------------------
(* The commands.  Each gives the set of results the command may have:      *)
(*   pre      the resource before the command                              *)
(*   didRead  read_from_file was called;  readOk  it returned a mapping    *)
(*   M        the mapping the read returned                                *)
(*   wrote    write_to_file was called                                     *)
(*   err      the error the command ended with, NoErr when it reported     *)
(*            success                                                      *)
(*   listed   the entries List printed, count the entry count it printed   *)
(*   file     the resource after the command                               *)

Result(cmd, key, value, kind, pre, didRead, readOk, M, wrote, err, listed, f) ==
    [cmd |-> cmd, key |-> key, value |-> value, kind |-> kind, pre |-> pre,
     didRead |-> didRead, readOk |-> readOk, M |-> M, wrote |-> wrote,
     err |-> err, listed |-> listed, count |-> Cardinality(DOMAIN listed),
     file |-> f]

\* An insert that takes the new value whether or not the key was there.
InsertIfAbsent_overwrite(db, key, value) ==
    [err |-> NoErr, db |-> DbInsert(db, key, value).db]

\* An insert that loses the other entries.
InsertIfAbsent_alone(db, key, value) ==
    IF DbInsert(db, key, value).had
    THEN [err |-> KeyAlreadyExists, db |-> DbInsert(db, key, value).db]
    ELSE [err |-> NoErr, db |-> DbInsert(EmptyDb, key, value).db]

\* add_key's change in memory: insert, and KeyAlreadyExists when insert
\* returned an earlier value.
InsertIfAbsent(db, key, value) ==
    IF DbInsert(db, key, value).had
    THEN [err |-> KeyAlreadyExists, db |-> DbInsert(db, key, value).db]
    ELSE [err |-> NoErr, db |-> DbInsert(db, key, value).db]

\* A remove that succeeds on a key that is not there.
RemoveIfPresent_lenient(db, key) ==
    [err |-> NoErr, db |-> DbRemove(db, key).db]

\* remove_db_key's change in memory: remove, and KeyDoesNotExist with the
\* key when remove returned nothing.
RemoveIfPresent(db, key) ==
    IF ~DbRemove(db, key).had
    THEN [err |-> KeyDoesNotExist(key), db |-> DbRemove(db, key).db]
    ELSE [err |-> NoErr, db |-> DbRemove(db, key).db]

\* init_db's database: hat -> fedora, food -> hotdog.
SeedDb == DbInsert(DbInsert(EmptyDb, "hat", "fedora").db, "food", "hotdog").db

\* init_db: build the seed database and write it; nothing is read.
init_db(kind, f, fault) ==
    { Result("Init", "", "", kind, f, FALSE, FALSE, EmptyDb, TRUE, w.err, EmptyDb, w.file) :
        w \in write_to_file(kind, f, SeedDb, fault) }

\* add_key: read, insert, fail on a key that was there, else write.
add_key(kind, f, key, value, fault) ==
    UNION {
        IF r.err # NoErr
        THEN { Result("Add", key, value, kind, f, TRUE, FALSE, EmptyDb, FALSE, r.err, EmptyDb, r.file) }
        ELSE IF InsertIfAbsent(r.db, key, value).err # NoErr
        THEN { Result("Add", key, value, kind, f, TRUE, TRUE, r.db, FALSE,
                      InsertIfAbsent(r.db, key, value).err, EmptyDb, r.file) }
        ELSE { Result("Add", key, value, kind, f, TRUE, TRUE, r.db, TRUE, w.err, EmptyDb, w.file) :
                 w \in write_to_file(kind, r.file, InsertIfAbsent(r.db, key, value).db, fault) }
        : r \in read_from_file(kind, f, fault) }

\* remove_db_key: read, remove, fail on a key that was not there, else write.
remove_db_key(kind, f, key, fault) ==
    UNION {
        IF r.err # NoErr
        THEN { Result("Remove", key, "", kind, f, TRUE, FALSE, EmptyDb, FALSE, r.err, EmptyDb, r.file) }
        ELSE IF RemoveIfPresent(r.db, key).err # NoErr
        THEN { Result("Remove", key, "", kind, f, TRUE, TRUE, r.db, FALSE,
                      RemoveIfPresent(r.db, key).err, EmptyDb, r.file) }
        ELSE { Result("Remove", key, "", kind, f, TRUE, TRUE, r.db, TRUE, w.err, EmptyDb, w.file) :
                 w \in write_to_file(kind, r.file, RemoveIfPresent(r.db, key).db, fault) }
        : r \in read_from_file(kind, f, fault) }

\* list_db: read, print the entry count and every entry; nothing is written.
list_db(kind, f, fault) ==
    { IF r.err # NoErr
      THEN Result("List", "", "", kind, f, TRUE, FALSE, EmptyDb, FALSE, r.err, EmptyDb, r.file)
      ELSE Result("List", "", "", kind, f, TRUE, TRUE, r.db, FALSE, NoErr, r.db, r.file)
      : r \in read_from_file(kind, f, fault) }

----------------------------------------------------------------------------
(* Sequential invocations: one command at a time against the resource.     *)

NoCommand ==
    Result("None", "", "", "None", Missing, FALSE, FALSE, EmptyDb, FALSE, NoErr, EmptyDb, Missing)

NoProcs == <<>>
NoRt == [M |-> EmptyDb, started |-> FALSE, phase |-> "read", trips |-> 0,
         readErr |-> NoErr, readDb |-> EmptyDb, writeErr |-> NoErr]
NoSel == [name |-> <<>>, kind |-> "None", notice |-> FALSE]

Init ==
    /\ fname \in DbNames
    /\ file \in Contents
    /\ last = NoCommand
    /\ trace = <<>>
    /\ procs = NoProcs
    /\ commits = <<>>
    /\ rt = NoRt
    /\ sel = NoSel

\* main: the command's result becomes the state of the resource.
Ran(o) ==
    /\ file' = o.file
    /\ last' = o
    /\ UNCHANGED <<fname, trace, procs, commits, rt, sel>>

CmdInit(fault) ==
    \E o \in init_db(create_serializer(fname).kind, file, fault) : Ran(o)

CmdAdd(fault) ==
    \E key \in Keys, value \in Vals :
        \E o \in add_key(create_serializer(fname).kind, file, key, value, fault) : Ran(o)

CmdRemove(fault) ==
    \E key \in Keys :
        \E o \in remove_db_key(create_serializer(fname).kind, file, key, fault) : Ran(o)

CmdList(fault) ==
    \E o \in list_db(create_serializer(fname).kind, file, fault) : Ran(o)

Next ==
    \/ CmdInit("none")
    \/ CmdAdd("none")
    \/ CmdRemove("none")
    \/ CmdList("none")

\* Commands in an environment in which no system call fails.
Spec == Init /\ [][Next]_vars

FailingInit ==
    \E fault \in WriteFaults(create_serializer(fname).kind) : CmdInit(fault)
FailingAdd ==
    \E fault \in ReadFaults \cup WriteFaults(create_serializer(fname).kind) : CmdAdd(fault)
FailingRemove ==
    \E fault \in ReadFaults \cup WriteFaults(create_serializer(fname).kind) : CmdRemove(fault)
FailingList ==
    \E fault \in ReadFaults : CmdList(fault)

FaultNext ==
    \/ Next
    \/ FailingInit
    \/ FailingAdd
    \/ FailingRemove
    \/ FailingList

\* Commands in an environment in which system calls may fail.
FaultSpec == Init /\ [][FaultNext]_vars

----------------------------------------------------------------------------
(* What the claims speak of *)

Mutating == {"Init", "Add", "Remove"}

\* Every read of resource f by the adapter returns exactly the mapping db.
ReadsAs(kind, f, db) ==
    \A r \in read_from_file(kind, f, "none") : r.err = NoErr /\ r.db = db

\* The resource after the latest command is the resource before it; the
\* SQLite adapter's open has at most created the database file.
Untouched ==
    \/ file = last.pre
    \/ last.kind = "Sqlite" /\ last.pre = Missing /\ file = Empty

\* Rows i < j that both decode and carry the same key.
SameKey(rows, i, j) ==
    /\ i < j
    /\ ~IsBad(rows[i])
    /\ ~IsBad(rows[j])
    /\ rows[i][1] = rows[j][1]

HasDuplicateKey(rows) == \E i, j \in 1..Len(rows) : SameKey(rows, i, j)

\* The first row that repeats an earlier key, and the first row that
\* does not decode (Len + 1 when there is none).
FirstRepeat(rows) ==
    LET S == { j \in 1..Len(rows) : \E i \in 1..Len(rows) : SameKey(rows, i, j) }
    IN  IF S = {} THEN Len(rows) + 1 ELSE CHOOSE j \in S : \A m \in S : j <= m

FirstBad(rows) ==
    LET S == { j \in 1..Len(rows) : IsBad(rows[j]) }
    IN  IF S = {} THEN Len(rows) + 1 ELSE CHOOSE j \in S : \A m \in S : j <= m

DecodeErr(kind) == IF kind = "Csv" THEN Err("Csv") ELSE Err("Sql")

----------------------------------------------------------------------------
(* C1: on every backend, once the read has returned a mapping M, Add fails *)
(* with KeyAlreadyExists exactly when the key is a key of M, and a         *)
(* rejected Add has called no write and left the resource as it was.       *)
C1_AddRejectedIffPresent ==
    (last.cmd = "Add" /\ last.readOk) =>
        /\ (last.err = KeyAlreadyExists) <=> (last.key \in DOMAIN last.M)
        /\ (last.err = KeyAlreadyExists) => (~last.wrote /\ file = last.pre)

C1_Witness ==
    /\ last.cmd = "Add"
    /\ last.readOk
    /\ last.key \in DOMAIN last.M
    /\ last.err = KeyAlreadyExists
    /\ last.M[last.key] # last.value
    /\ file = last.pre

(* C2: on every backend, once the read has returned a mapping M, Remove    *)
(* fails with KeyDoesNotExist carrying the requested key exactly when the  *)
(* key is not a key of M, and a rejected Remove has called no write and    *)
(* left the resource as it was.                                            *)
C2_RemoveRejectedIffAbsent ==
    (last.cmd = "Remove" /\ last.readOk) =>
        /\ (last.err.kind = "KeyDoesNotExist") <=> (last.key \notin DOMAIN last.M)
        /\ (last.err.kind = "KeyDoesNotExist") =>
              (last.err.key = last.key /\ ~last.wrote /\ file = last.pre)

C2_Witness ==
    /\ last.cmd = "Remove"
    /\ last.readOk
    /\ last.M # EmptyDb
    /\ last.key \notin DOMAIN last.M
    /\ last.err = KeyDoesNotExist(last.key)
    /\ file = last.pre

(* C3: Init reads nothing and, whatever the resource held before, leaves   *)
(* it holding exactly hat -> fedora and food -> hotdog: a read after Init  *)
(* returns these two entries and no others.                                *)
C3_InitAlwaysSeeds ==
    last.cmd = "Init" =>
        /\ ~last.didRead
        /\ ReadsAs(last.kind, file, SeedDb)
        /\ DOMAIN SeedDb = {"hat", "food"}
        /\ SeedDb["hat"] = "fedora"
        /\ SeedDb["food"] = "hotdog"

\* Init on every resource but a SQLite resource that is not a database.
InitSeedsADatabase ==
    (last.cmd = "Init" /\ ~(last.kind = "Sqlite" /\ last.pre = Garbage)) =>
        (~last.didRead /\ last.err = NoErr /\ ReadsAs(last.kind, file, SeedDb))

(* C4 as claimed: a mutating command that ends in an error, raised at any  *)
(* step, leaves the resource as it was before the command.                 *)
C4_NoPartialWrite ==
    (last.cmd \in Mutating /\ last.err # NoErr) => Untouched

(* C4 as amended: the write starts only after the read and the change in   *)
(* memory have both succeeded; a mutating command that ends in an error    *)
(* raised before the write, or in any error on the SQLite backend, leaves  *)
(* the resource as it was.                                                 *)
C4_WriteAfterReadAndSqliteAtomic ==
    last.cmd \in Mutating =>
        /\ (last.wrote /\ last.cmd = "Add") => (last.readOk /\ last.key \notin DOMAIN last.M)
        /\ (last.wrote /\ last.cmd = "Remove") => (last.readOk /\ last.key \in DOMAIN last.M)
        /\ (last.err # NoErr /\ (~last.wrote \/ last.kind = "Sqlite")) => Untouched

C4_Witness ==
    /\ last.cmd = "Add"
    /\ last.kind = "Sqlite"
    /\ last.wrote
    /\ last.err = Err("Sql")
    /\ last.pre.kind = "data"
    /\ Len(last.pre.rows) = 2
    /\ file = last.pre

AddedExactly ==
    (last.cmd = "Add" /\ last.err = NoErr) =>
        /\ last.readOk
        /\ \A r \in read_from_file(last.kind, file, "none") :
              /\ r.err = NoErr
              /\ DOMAIN r.db = DOMAIN last.M \cup {last.key}
              /\ r.db[last.key] = last.value
              /\ \A k \in DOMAIN last.M : r.db[k] = last.M[k]
              /\ Cardinality(DOMAIN r.db) = Cardinality(DOMAIN last.M) + 1

RemovedExactly ==
    (last.cmd = "Remove" /\ last.err = NoErr) =>
        /\ last.readOk
        /\ \A r \in read_from_file(last.kind, file, "none") :
              /\ r.err = NoErr
              /\ DOMAIN r.db = DOMAIN last.M \ {last.key}
              /\ \A k \in DOMAIN r.db : r.db[k] = last.M[k]
              /\ Cardinality(DOMAIN r.db) + 1 = Cardinality(DOMAIN last.M)

----------------------------------------------------------------------------
(* The end-to-end scenario: init, add color blue, list, remove color,      *)
(* list, remove color, one invocation after the other on one resource.     *)

Script ==
    << [cmd |-> "Init", key |-> "", value |-> ""],
       [cmd |-> "Add", key |-> "color", value |-> "blue"],
       [cmd |-> "List", key |-> "", value |-> ""],
       [cmd |-> "Remove", key |-> "color", value |-> ""],
       [cmd |-> "List", key |-> "", value |-> ""],
       [cmd |-> "Remove", key |-> "color", value |-> ""] >>

Step == Script[Len(trace) + 1]

Stepped(o) ==
    /\ file' = o.file
    /\ trace' = Append(trace, o)
    /\ UNCHANGED <<fname, last, procs, commits, rt, sel>>

ScenarioInit ==
    /\ Len(trace) < Len(Script)
    /\ Step.cmd = "Init"
    /\ \E o \in init_db(create_serializer(fname).kind, file, "none") : Stepped(o)

ScenarioAdd ==
    /\ Len(trace) < Len(Script)
    /\ Step.cmd = "Add"
    /\ \E o \in add_key(create_serializer(fname).kind, file, Step.key, Step.value, "none") :
          Stepped(o)

ScenarioRemove ==
    /\ Len(trace) < Len(Script)
    /\ Step.cmd = "Remove"
    /\ \E o \in remove_db_key(create_serializer(fname).kind, file, Step.key, "none") :
          Stepped(o)

ScenarioList ==
    /\ Len(trace) < Len(Script)
    /\ Step.cmd = "List"
    /\ \E o \in list_db(create_serializer(fname).kind, file, "none") : Stepped(o)

ScenarioNext == ScenarioInit \/ ScenarioAdd \/ ScenarioRemove \/ ScenarioList

ScenarioSpec == Init /\ [][ScenarioNext]_vars

\* What the scenario is said to show once its six commands have run.
ScenarioOutcome ==
    /\ trace[3].err = NoErr
    /\ trace[3].count = 3
    /\ "color" \in DOMAIN trace[3].listed
    /\ trace[3].listed["color"] = "blue"
    /\ trace[5].err = NoErr
    /\ trace[5].count = 2
    /\ trace[6].err = KeyDoesNotExist("color")
    /\ ~trace[6].wrote
    /\ ReadsAs(trace[6].kind, file, SeedDb)

(* C9: after Init, Add(color, blue), List, Remove(color), List,            *)
(* Remove(color) on one resource, the first List reported 3 entries with   *)
(* color -> blue, the second List 2 entries, the second Remove failed with *)
(* KeyDoesNotExist and the resource holds hat -> fedora, food -> hotdog.   *)
C9_Scenario == Len(trace) = Len(Script) => ScenarioOutcome

\* The scenario's outcome on every resource whose Init succeeded.
ScenarioAfterInit ==
    (Len(trace) = Len(Script) /\ trace[1].err = NoErr) => ScenarioOutcome

----------------------------------------------------------------------------
(* The adapters' round trip: read the resource, write back what was read,  *)
(* read again, up to MaxTrips times.                                       *)

\* The first read succeeds and its mapping is kept; a later read is
\* recorded whatever it returns.
RtRead ==
    /\ rt.phase = "read"
    /\ \E r \in read_from_file(create_serializer(fname).kind, file, "none") :
          /\ rt.started \/ r.err = NoErr
          /\ file' = r.file
          /\ rt' = [rt EXCEPT !.M = IF rt.started THEN rt.M ELSE r.db,
                              !.started = TRUE,
                              !.phase = "write",
                              !.readErr = r.err,
                              !.readDb = r.db]
    /\ UNCHANGED <<fname, last, trace, procs, commits, sel>>

RtWrite ==
    /\ rt.phase = "write"
    /\ rt.trips < MaxTrips
    /\ rt.readErr = NoErr
    /\ \E w \in write_to_file(create_serializer(fname).kind, file, rt.readDb, "none") :
          /\ file' = w.file
          /\ rt' = [rt EXCEPT !.phase = "read", !.trips = rt.trips + 1, !.writeErr = w.err]
    /\ UNCHANGED <<fname, last, trace, procs, commits, sel>>

RtNext == RtRead \/ RtWrite

RtSpec == Init /\ [][RtNext]_vars

(* C5: on each of the four backends, when a read of the resource returns  *)
(* a mapping M, writing back what was read succeeds and every later read   *)
(* returns a mapping equal to M, however many round trips are made.        *)
C5_RoundTrip ==
    rt.started =>
        /\ rt.writeErr = NoErr
        /\ rt.readErr = NoErr
        /\ rt.readDb = rt.M

C5_Witness ==
    /\ rt.started
    /\ rt.trips >= 2
    /\ rt.phase = "write"
    /\ Cardinality(DOMAIN rt.M) >= 2
    /\ rt.readDb = rt.M

----------------------------------------------------------------------------
(* The selector on its own, over names put together from Segments.         *)

RECURSIVE NamesOf(_)
\* The names of at most n segments and at most MaxNameLen characters.
NamesOf(n) ==
    IF n = 0 THEN { <<>> }
    ELSE LET shorter == NamesOf(n - 1)
         IN  shorter \cup
             { name \in { s \o g : s \in shorter, g \in Segments } : Len(name) <= MaxNameLen }

SelNames == NamesOf(MaxSegs)

SelInit ==
    /\ fname \in SelNames
    /\ file = Missing
    /\ last = NoCommand
    /\ trace = <<>>
    /\ procs = NoProcs
    /\ commits = <<>>
    /\ rt = NoRt
    /\ sel = NoSel

\* main: let serializer = create_serializer(&cli_args.database)
Select ==
    /\ sel = NoSel
    /\ sel' = [name |-> fname,
               kind |-> create_serializer(fname).kind,
               notice |-> create_serializer(fname).notice]
    /\ UNCHANGED <<fname, file, last, trace, procs, commits, rt>>

SelSpec == SelInit /\ [][Select]_vars

MatchesNone(name) ==
    /\ ~EndsWith(name, DotYml)
    /\ ~EndsWith(name, DotJson)
    /\ ~EndsWith(name, DotDb)
    /\ ~EndsWith(name, DotSqlite)
    /\ ~EndsWith(name, DotCsv)

(* C7: for every resource name the selector returns exactly one of the     *)
(* four adapters: YAML for a name ending in .yml, JSON for .json, SQLite   *)
(* for .db or .sqlite, CSV for .csv, and YAML, with the fallback notice,   *)
(* for every other name.                                                   *)
C7_SelectorTotal ==
    sel # NoSel =>
        /\ sel.kind \in {"Yaml", "Json", "Sqlite", "Csv"}
        /\ EndsWith(sel.name, DotYml) => sel.kind = "Yaml"
        /\ EndsWith(sel.name, DotJson) => sel.kind = "Json"
        /\ (EndsWith(sel.name, DotDb) \/ EndsWith(sel.name, DotSqlite)) => sel.kind = "Sqlite"
        /\ EndsWith(sel.name, DotCsv) => sel.kind = "Csv"
        /\ MatchesNone(sel.name) => sel.kind = "Yaml"
        /\ sel.notice <=> MatchesNone(sel.name)

C7_Witness ==
    /\ sel # NoSel
    /\ Len(sel.name) = 8
    /\ SubSeq(sel.name, 1, 4) = DotYml
    /\ EndsWith(sel.name, DotCsv)
    /\ sel.kind = "Csv"

----------------------------------------------------------------------------
(* Concurrent invocations: two processes, each running one Add or Remove   *)
(* against the same resource.  A process reads and changes its copy in one *)
(* step and writes it in a later step; nothing keeps the other process     *)
(* from stepping in between.  Each adapter call is taken as a whole.       *)

Procs == {1, 2}

IdleProc ==
    [pc |-> "idle", cmd |-> "None", key |-> "", value |-> "", M |-> EmptyDb,
     db |-> EmptyDb, err |-> NoErr]

\* The resources concurrent invocations start from: what earlier commands
\* wrote, with room for two more keys.
ConcContents ==
    UNION { { Data(l) : l \in Layouts(db) } :
              db \in { d \in Databases : Cardinality(DOMAIN d) < MaxRows } }

ConcInit ==
    /\ fname \in DbNames
    /\ file \in ConcContents
    /\ last = NoCommand
    /\ trace = <<>>
    /\ procs = [p \in Procs |-> IdleProc]
    /\ commits = <<>>
    /\ rt = NoRt
    /\ sel = NoSel

\* The process after its read and its change in memory.
AfterRead(cmd, key, value, r, m) ==
    [pc |-> IF r.err = NoErr /\ m.err = NoErr THEN "writing" ELSE "done",
     cmd |-> cmd, key |-> key, value |-> value,
     M |-> r.db,
     db |-> m.db,
     err |-> IF r.err # NoErr THEN r.err ELSE m.err]

\* add_key up to its call of write_to_file
ProcReadAdd(p) ==
    /\ procs[p].pc = "idle"
    /\ \E key \in Keys, value \in Vals :
         \E r \in read_from_file(create_serializer(fname).kind, file, "none") :
            /\ file' = r.file
            /\ procs' = [procs EXCEPT ![p] =
                            AfterRead("Add", key, value, r, InsertIfAbsent(r.db, key, value))]
    /\ UNCHANGED <<fname, last, trace, commits, rt, sel>>

\* remove_db_key up to its call of write_to_file
ProcReadRemove(p) ==
    /\ procs[p].pc = "idle"
    /\ \E key \in Keys :
         \E r \in read_from_file(create_serializer(fname).kind, file, "none") :
            /\ file' = r.file
            /\ procs' = [procs EXCEPT ![p] =
                            AfterRead("Remove", key, "", r, RemoveIfPresent(r.db, key))]
    /\ UNCHANGED <<fname, last, trace, commits, rt, sel>>

\* the call of write_to_file and the command's end
ProcWrite(p) ==
    /\ procs[p].pc = "writing"
    /\ \E w \in write_to_file(create_serializer(fname).kind, file, procs[p].db, "none") :
          /\ file' = w.file
          /\ procs' = [procs EXCEPT ![p].pc = "done", ![p].err = w.err]
    /\ commits' = Append(commits, p)
    /\ UNCHANGED <<fname, last, trace, rt, sel>>

ConcNext == \E p \in Procs : ProcReadAdd(p) \/ ProcReadRemove(p) \/ ProcWrite(p)

ConcSpec == ConcInit /\ [][ConcNext]_vars

\* Both processes ran Add with distinct keys, both read the same mapping
\* (neither saw the other's write) and both reported success.
BothAddedBlind ==
    /\ \A p \in Procs : procs[p].pc = "done" /\ procs[p].cmd = "Add" /\ procs[p].err = NoErr
    /\ procs[1].key # procs[2].key
    /\ procs[1].M = procs[2].M

(* C8: nothing locks the resource: when two Adds with distinct absent keys *)
(* both read before either writes, both report success and the resource    *)
(* ends holding what the last writer wrote; the first writer's key is      *)
(* lost.                                                                   *)
C8_LastWriterWins ==
    BothAddedBlind =>
        LET winner == procs[commits[Len(commits)]]
            loser == procs[commits[1]]
        IN  /\ Len(commits) = 2
            /\ \A r \in read_from_file(create_serializer(fname).kind, file, "none") :
                  /\ r.err = NoErr
                  /\ DOMAIN r.db = DOMAIN winner.M \cup {winner.key}
                  /\ r.db[winner.key] = winner.value
                  /\ loser.key \notin DOMAIN r.db

C8_Witness ==
    /\ BothAddedBlind
    /\ commits = <<1, 2>>
    /\ procs[1].M # EmptyDb
    /\ \A r \in read_from_file(create_serializer(fname).kind, file, "none") :
          procs[1].key \notin DOMAIN r.db /\ procs[2].key \in DOMAIN r.db

====
